---- MODULE Spec2Model ----
(***************************************************************************)
(* A model of egui_heatmap's tiling engine (src/src/multimap.rs): the grid *)
(* layout, the session state (visibility, selection, shown rectangle), the *)
(* interaction operations, render and the hit-test; and of the widget      *)
(* (src/src/bitmap_widget_multi.rs): its per-frame ui over a ShowState.    *)
(*                                                                         *)
(* Conventions                                                             *)
(*   Option<T>   None is <<>>, Some(v) is <<v>>.                           *)
(*   usize       a natural number; a subtraction that would go below 0, a  *)
(*               division by 0 and an out-of-range index end the program   *)
(*               (a panic); the operation's outcome is then tagged "Abort".*)
(*               Arithmetic is overflow-checked, as in cargo's dev and     *)
(*               test profiles.                                            *)
(*   Color       a pixel is a record that says where its colour comes from *)
(*               (kind, dataset key, data coordinate, darkened or not).    *)
(*   Text        titles, overlay texts and labels are drawn by the font    *)
(*               rasterizer, which is outside this model.                  *)
(***************************************************************************)
EXTENDS Integers, Sequences, FiniteSets, TLC

VARIABLES
    data,             \* ShowMultiMap.data: the datasets, in order
    settings,         \* ShowMultiMap's settings (thicknesses, colorbar, factor)
    drag_area,        \* ShowMultiMap.drag_area
    to_plot,          \* MultimapState.to_plot
    selected,         \* MultimapState.selected
    shown_rectangle,  \* MultimapState.shown_rectangle
    size,             \* the raster size <<width, height>> given to render and hit-test
    rendered,         \* what the last render returned, None once the state changed
    mouse,            \* what the last hit-test returned, None once the state changed
    op,               \* the operation that made the last step, with its arguments
    grid,             \* compute_columns_rows: the argument and the value returned
    widget,           \* MultiBitmapWidget's own fields (its showmap is data, settings, drag_area)
    states,           \* the ShowStates the host keeps and hands to ui
    now,              \* std::time::Instant::now(), in seconds
    clipboard,        \* how often a delayed copy was scheduled and how often it was made
    panic             \* "" while the program runs, else the call that panicked

vars == <<data, settings, drag_area, to_plot, selected, shown_rectangle,
          size, rendered, mouse, op, grid, widget, states, now, clipboard, panic>>

\* the variables of the widget
wvars == <<widget, states, now, clipboard, panic>>

None == <<>>
Some(v) == <<v>>
Unwrap(o) == o[1]

Min(a, b) == IF a <= b THEN a ELSE b
Max(a, b) == IF a >= b THEN a ELSE b

\* Rust's integer division truncates toward zero.
TruncDiv(a, b) ==
    IF (a >= 0) = (b > 0) THEN (IF a >= 0 THEN a \div b ELSE (-a) \div (-b))
    ELSE -((IF a >= 0 THEN a ELSE -a) \div (IF b > 0 THEN b ELSE -b))

Point(x, y) == [x |-> x, y |-> y]
Rect(ltx, lty, rbx, rby) == [left_top |-> Point(ltx, lty), right_bottom |-> Point(rbx, rby)]

(***************************************************************************)
(* Bounds of the model.                                                    *)
(***************************************************************************)
MaxCount == 60        \* compute_columns_rows is applied to 0..MaxCount
MaxCoord == 6         \* shown rectangles are kept inside 0..MaxCoord on both axes
MaxZoom == 1          \* zoom increments are -MaxZoom..MaxZoom
MaxPan == 1           \* translations are by -MaxPan..MaxPan on each axis
MaxPoint == 2         \* points to select have x in 0..MaxPoint and y in 0..1
MaxWidth == 5         \* raster widths are 0..MaxWidth
MaxHeight == 3        \* raster heights are 0..MaxHeight
MaxBetween == 1       \* boundary_between_data.thickness is 0..MaxBetween
MaxView == 1          \* the widget's shown rectangles stay inside -MaxView..1 + MaxView
MaxSelected == 2      \* the widget's sessions select at most MaxSelected points
MaxNow == 5           \* the clock runs from 0 to MaxNow seconds
MaxScheduled == 2     \* a delayed copy is scheduled at most MaxScheduled times
MaxScroll == 3        \* while scrolling, shown rectangles stay inside -MaxScroll..1 + MaxScroll

(***************************************************************************)
(* compute_columns_rows                                                    *)
(***************************************************************************)
\* (count as f64).sqrt().ceil() as usize
sqrt_ceil(count) ==
    CHOOSE c \in 0..count : c * c >= count /\ (c = 0 \/ (c - 1) * (c - 1) < count)

RECURSIVE while_rows_mut(_, _, _)
while_rows_mut(data_rows, data_columns, count) ==
    IF data_rows * data_columns <= count
    THEN while_rows_mut(data_rows + 1, data_columns, count)
    ELSE data_rows

\* while data_rows * data_columns < count { data_rows += 1; }
RECURSIVE while_rows(_, _, _)
while_rows(data_rows, data_columns, count) ==
    IF data_rows * data_columns < count
    THEN while_rows(data_rows + 1, data_columns, count)
    ELSE data_rows

compute_columns_rows(count) ==
    IF count = 0 THEN <<0, 0>>
    ELSE LET data_columns == sqrt_ceil(count)
         IN <<data_columns, while_rows(count \div data_columns, data_columns, count)>>

(***************************************************************************)
(* Data and MultimapState                                                  *)
(***************************************************************************)
\* One entry of ShowMultiMap.data: DataWithMetadata { key, data: Data { width, height,
\* first_point_coordinate, .. } }.
Dataset(key, x, y, width, height) ==
    [key |-> key, first_point_coordinate |-> Point(x, y), width |-> width, height |-> height]

Keys(d) == {d[i].key : i \in 1..Len(d)}

\* Data::lookup(point).is_some()
lookup(d, point) ==
    ~ (\/ point.x < d.first_point_coordinate.x
       \/ point.y < d.first_point_coordinate.y
       \/ point.x - d.first_point_coordinate.x >= d.width
       \/ point.y - d.first_point_coordinate.y >= d.height)

\* Data::bounding_box
bounding_box(d) ==
    [left_top |-> d.first_point_coordinate,
     right_bottom |-> Point(d.first_point_coordinate.x + d.width,
                            d.first_point_coordinate.y + d.height)]

\* MultimapState::to_plot(key): to_plot.get(key).cloned().unwrap_or(true)
to_plot_of(plot, key) == IF key \in DOMAIN plot THEN plot[key] ELSE TRUE

\* ShowMultiMap::default_state
default_state(d) ==
    [to_plot |-> [k \in Keys(d) |-> TRUE], selected |-> {}, shown_rectangle |-> None]

SetMin(S, default) == IF S = {} THEN default ELSE CHOOSE m \in S : \A v \in S : m <= v
SetMax(S, default) == IF S = {} THEN default ELSE CHOOSE m \in S : \A v \in S : m >= v

home_rect_mut(d, plot) ==
    LET boxes == {bounding_box(d[i]) : i \in {j \in 1..Len(d) : to_plot_of(plot, d[j].key)}}
    IN Rect(SetMin({b.left_top.x : b \in boxes}, 0), SetMin({b.left_top.y : b \in boxes}, 0),
            SetMax({b.right_bottom.x : b \in boxes}, 0),
            SetMax({b.right_bottom.y : b \in boxes}, 0))

home_rect_mut_all(d, plot) ==
    LET boxes == {bounding_box(d[i]) : i \in 1..Len(d)}
    IN Rect(SetMin({b.left_top.x : b \in boxes}, 0), SetMin({b.left_top.y : b \in boxes}, 0),
            SetMax({b.right_bottom.x : b \in boxes}, 1),
            SetMax({b.right_bottom.y : b \in boxes}, 1))

\* home_rect: the union of the bounding boxes of the datasets to plot
home_rect(d, plot) ==
    LET boxes == {bounding_box(d[i]) : i \in {j \in 1..Len(d) : to_plot_of(plot, d[j].key)}}
    IN Rect(SetMin({b.left_top.x : b \in boxes}, 0), SetMin({b.left_top.y : b \in boxes}, 0),
            SetMax({b.right_bottom.x : b \in boxes}, 1),
            SetMax({b.right_bottom.y : b \in boxes}, 1))

(***************************************************************************)
(* The interaction operations of ShowMultiMap                              *)
(***************************************************************************)
zoom_mut(zoom_increment, rect) ==
    LET r1 == IF zoom_increment < 0
                 \/ rect.right_bottom.x - rect.left_top.x > 3 + zoom_increment
              THEN [rect EXCEPT !.left_top.x = @ + zoom_increment,
                                !.right_bottom.x = @ - zoom_increment]
              ELSE rect
    IN IF zoom_increment < 0
          \/ r1.right_bottom.y - r1.left_top.y > 3 + zoom_increment
       THEN [r1 EXCEPT !.left_top.y = @ + zoom_increment,
                       !.right_bottom.y = @ - zoom_increment]
       ELSE r1

zoom_mut_x(zoom_increment, rect) ==
    LET r1 == IF zoom_increment < 0
                 \/ rect.right_bottom.y - rect.left_top.y > 3 + zoom_increment * 2
              THEN [rect EXCEPT !.left_top.x = @ + zoom_increment,
                                !.right_bottom.x = @ - zoom_increment]
              ELSE rect
    IN IF zoom_increment < 0
          \/ r1.right_bottom.y - r1.left_top.y > 3 + zoom_increment * 2
       THEN [r1 EXCEPT !.left_top.y = @ + zoom_increment,
                       !.right_bottom.y = @ - zoom_increment]
       ELSE r1

zoom(zoom_increment, rect) ==
    LET r1 == IF zoom_increment < 0
                 \/ rect.right_bottom.x - rect.left_top.x > 3 + zoom_increment * 2
              THEN [rect EXCEPT !.left_top.x = @ + zoom_increment,
                                !.right_bottom.x = @ - zoom_increment]
              ELSE rect
    IN IF zoom_increment < 0
          \/ r1.right_bottom.y - r1.left_top.y > 3 + zoom_increment * 2
       THEN [r1 EXCEPT !.left_top.y = @ + zoom_increment,
                       !.right_bottom.y = @ - zoom_increment]
       ELSE r1

translate(delta, rect) ==
    Rect(rect.left_top.x + delta.x, rect.left_top.y + delta.y,
         rect.right_bottom.x + delta.x, rect.right_bottom.y + delta.y)

\* KeyBoardDirection -> (dx, dy)
KeyBoardDirection == {"Up", "Down", "Left", "Right"}
translate_keyboard(direction, rect) ==
    LET delta == CASE direction = "Up" -> Point(0, -1)
                   [] direction = "Down" -> Point(0, 1)
                   [] direction = "Left" -> Point(-1, 0)
                   [] direction = "Right" -> Point(1, 0)
    IN translate(delta, rect)

center_to_mut(pos, rect) ==
    LET dx == rect.right_bottom.x - rect.left_top.x
        dy == rect.right_bottom.y - rect.left_top.y
    IN Rect(pos.x - TruncDiv(dx, 2), pos.y - TruncDiv(dy, 2),
            pos.x + (dx - TruncDiv(dx, 2)), pos.y + (dy - TruncDiv(dy, 2)))

center_to(pos, rect) ==
    LET dx == rect.right_bottom.x - rect.left_top.x
        dy == rect.right_bottom.y - rect.left_top.y
    IN Rect(pos.x - (dx - TruncDiv(dx, 2)), pos.y - (dy - TruncDiv(dy, 2)),
            pos.x + TruncDiv(dx, 2), pos.y + TruncDiv(dy, 2))

select_mut(pos, ctrl_is_pressed, sel) ==
    LET cleared == IF ~ctrl_is_pressed THEN {} ELSE sel
    IN IF pos \notin sel THEN cleared \cup {pos} ELSE cleared

select(pos, ctrl_is_pressed, sel) ==
    LET was_selected_before == pos \in sel
        removed == sel \ {pos}
        cleared == IF ~ctrl_is_pressed THEN {} ELSE removed
    IN IF ~was_selected_before THEN cleared \cup {pos} ELSE cleared

\* drag_area: Option<((lt, rb), start)>
DragArea(lt, rb, start) == [lt |-> lt, rb |-> rb, start |-> start]

drag_start(pos) == Some(DragArea(pos, pos, pos))

drag_is_ongoing_mut(pos, area) ==
    IF area # None
    THEN LET before == Unwrap(area)
             unchanged == before.lt = before.start /\ before.rb = pos
         IN [drag_area |-> Some(DragArea(before.start, pos, before.start)),
             returned |-> ~unchanged]
    ELSE [drag_area |-> None, returned |-> FALSE]

\* returns the new drag_area and the value returned
drag_is_ongoing(pos, area) ==
    IF area # None
    THEN LET before == Unwrap(area)
             lt == Point(Min(before.start.x, pos.x), Min(before.start.y, pos.y))
             rb == Point(Max(before.start.x, pos.x), Max(before.start.y, pos.y))
             unchanged == before.lt = lt /\ before.rb = rb
         IN [drag_area |-> Some(DragArea(lt, rb, before.start)), returned |-> ~unchanged]
    ELSE [drag_area |-> None, returned |-> FALSE]

drag_release_mut_extent(pos, area, rect) ==
    IF area # None /\ pos # None
    THEN LET a == Unwrap(area).start
             b == Unwrap(pos)
             lt == Point(Min(a.x, b.x), Min(a.y, b.y))
             rb == Point(Max(a.x, b.x) + 1, Max(a.y, b.y) + 1)
             dx == rb.x - lt.x
             dy == rb.y - lt.y
         IN [drag_area |-> None,
             shown_rectangle |-> IF dx > 3 /\ dy > 3
                                 THEN [left_top |-> lt, right_bottom |-> rb] ELSE rect]
    ELSE [drag_area |-> None, shown_rectangle |-> rect]

drag_release_mut(pos, area, rect) ==
    IF area # None /\ pos # None
    THEN LET a == Unwrap(area).start
             b == Unwrap(pos)
             lt == Point(Min(a.x, b.x), Min(a.y, b.y))
             rb == Point(Max(a.x, b.x) + 1, Max(a.y, b.y) + 1)
             dx == rb.x - lt.x
             dy == rb.y - lt.y
         IN [drag_area |-> None,
             shown_rectangle |-> IF dx > 3 + 1 /\ dy > 3 + 1
                                 THEN [left_top |-> lt, right_bottom |-> rb] ELSE rect]
    ELSE [drag_area |-> area, shown_rectangle |-> rect]

\* pos: Option<&CoordinatePoint>; self.drag_area.take() is evaluated in every case.
\* returns the new drag_area and the new shown rectangle
drag_release(pos, area, rect) ==
    IF area # None /\ pos # None
    THEN LET a == Unwrap(area).start
             b == Unwrap(pos)
             lt == Point(Min(a.x, b.x), Min(a.y, b.y))
             rb == Point(Max(a.x, b.x) + 1, Max(a.y, b.y) + 1)
             dx == rb.x - lt.x
             dy == rb.y - lt.y
         IN [drag_area |-> None,
             shown_rectangle |-> IF dx > 3 + 1 /\ dy > 3 + 1
                                 THEN [left_top |-> lt, right_bottom |-> rb] ELSE rect]
    ELSE [drag_area |-> None, shown_rectangle |-> rect]

\* ShowState::hide(key): get_mut / insert
hide(key, plot) == [k \in DOMAIN plot \cup {key} |-> IF k = key THEN FALSE ELSE plot[k]]

\* ShowState::show_all
show_all(plot) == [k \in DOMAIN plot |-> TRUE]

(***************************************************************************)
(* Settings and geometry shared by render and the hit-test                 *)
(***************************************************************************)
\* between:    boundary_between_data.thickness
\* colorbar:   Option<(gradient, thickness, _)>, the gradient by its number of stops
\* unselected: boundary_unselected.thickness
\* factor_min: boundary_factor_min
Settings(between, colorbar, unselected, factor_min) ==
    [between |-> between, colorbar |-> colorbar, unselected |-> unselected,
     factor_min |-> factor_min]
Colorbar(thickness, stops) == [thickness |-> thickness, stops |-> stops]

\* the datasets to plot, in the order of self.data (render reverses the list and
\* pops from its end, the hit-test indexes it from the front)
data_sets(d, plot) == SelectSeq(d, LAMBDA e : to_plot_of(plot, e.key))

\* (width_per_data, height_per_data) and plot_width, multimap.rs 423-443 (render) and
\* 976-999 (hit-test, the same text). tag is "Ok", "WidthSmallerThanColorBar" (the
\* early return) or "Abort" (a usize subtraction below 0).
cell_sizes(width, height, count, s) ==
    LET cr == compute_columns_rows(count)
        data_columns == cr[1]
        data_rows == cr[2]
        cb_thickness == IF s.colorbar = None THEN 0
                        ELSE Unwrap(s.colorbar).thickness + s.between
        none == [tag |-> "Abort", data_columns |-> data_columns, data_rows |-> data_rows,
                 width_per_data |-> 0, height_per_data |-> 0, plot_width |-> 0]
    IN IF width < cb_thickness THEN [none EXCEPT !.tag = "WidthSmallerThanColorBar"]
       ELSE LET width_without_colorbar == width - cb_thickness
                boundaries_x == s.between * (data_columns - 1)
                boundaries_y == s.between * (data_rows - 1)
            IN IF width_without_colorbar < boundaries_x \/ height < boundaries_y THEN none
               ELSE LET width_per_data == (width_without_colorbar - boundaries_x) \div data_columns
                        height_per_data == (height - boundaries_y) \div data_rows
                    IN [tag |-> "Ok", data_columns |-> data_columns, data_rows |-> data_rows,
                        width_per_data |-> width_per_data, height_per_data |-> height_per_data,
                        plot_width |-> data_columns * width_per_data + boundaries_x]

\* One axis of a cell in the regime pixels-per-point > 0 (multimap.rs 530-545 and its
\* copies): the data coordinate of cell position pos and whether pos is flagged boundary.
axis_per_point(pos, per_data, per_point, left_top, boundary_thickness) ==
    LET offset == ((per_data % per_point) + 1) \div 2
    IN IF pos < offset
       THEN [c |-> left_top - 1, b |-> pos + boundary_thickness >= offset]
       ELSE LET p == pos - offset
                rem == p % per_point
            IN [c |-> left_top + (p \div per_point),
                b |-> rem < boundary_thickness \/ rem + boundary_thickness >= per_point]

\* One axis in the regime pixels-per-point = 0: pos * delta / per_data (multimap.rs 612).
axis_proportional(pos, per_data, delta, left_top) ==
    [c |-> left_top + ((pos * delta) \div per_data), b |-> FALSE]

render_point_mut(column, row, width_per_data, height_per_data, rect, s) ==
    LET delta_x == rect.right_bottom.x - rect.left_top.x
        delta_y == rect.right_bottom.y - rect.left_top.y
        width_per_point == width_per_data \div delta_x
        height_per_point == height_per_data \div delta_y
        limit == s.factor_min * s.unselected
        bt_x == IF width_per_point > limit THEN s.unselected ELSE 0
        bt_y == IF height_per_point > limit THEN s.unselected ELSE 0
        x == IF width_per_point > 0
             THEN axis_per_point(column, width_per_data, width_per_point, rect.left_top.x, bt_x)
             ELSE axis_proportional(column, width_per_data, delta_x, rect.left_top.x)
        y == IF height_per_point > 0
             THEN axis_per_point(row, height_per_data, height_per_point, rect.left_top.y, bt_y)
             ELSE axis_proportional(row, height_per_data, delta_y, rect.left_top.y)
    IN [coordinate |-> Point(x.c, y.c), is_boundary |-> x.b \/ y.b]

\* RenderPoint of cell position (column, row): the four regimes of multimap.rs 514-716
\* (render) and 1009-1132 (hit-test, the same text). rect has positive extents: an
\* extent of 0 ends render and the hit-test before this point, and no operation of
\* the model makes a negative one.
render_point(column, row, width_per_data, height_per_data, rect, s) ==
    LET delta_x == rect.right_bottom.x - rect.left_top.x
        delta_y == rect.right_bottom.y - rect.left_top.y
        width_per_point == width_per_data \div delta_x
        height_per_point == height_per_data \div delta_y
        limit == s.factor_min * s.unselected
    IN IF width_per_point > 0 /\ height_per_point > 0
       THEN LET bt == IF width_per_point > limit /\ height_per_point > limit
                      THEN s.unselected ELSE 0
                x == axis_per_point(column, width_per_data, width_per_point, rect.left_top.x, bt)
                y == axis_per_point(row, height_per_data, height_per_point, rect.left_top.y, bt)
            IN [coordinate |-> Point(x.c, y.c), is_boundary |-> x.b \/ y.b]
       ELSE IF width_per_point > 0 /\ height_per_point = 0
       THEN LET bt == IF width_per_point > limit THEN s.unselected ELSE 0
                x == axis_per_point(column, width_per_data, width_per_point, rect.left_top.x, bt)
                y == axis_proportional(row, height_per_data, delta_y, rect.left_top.y)
            IN [coordinate |-> Point(x.c, y.c), is_boundary |-> x.b]
       ELSE IF width_per_point = 0 /\ height_per_point > 0
       THEN LET bt == IF height_per_point > limit THEN s.unselected ELSE 0
                x == axis_proportional(column, width_per_data, delta_x, rect.left_top.x)
                y == axis_per_point(row, height_per_data, height_per_point, rect.left_top.y, bt)
            IN [coordinate |-> Point(x.c, y.c), is_boundary |-> y.b]
       ELSE LET x == axis_proportional(column, width_per_data, delta_x, rect.left_top.x)
                y == axis_proportional(row, height_per_data, delta_y, rect.left_top.y)
            IN [coordinate |-> Point(x.c, y.c), is_boundary |-> FALSE]

(***************************************************************************)
(* render                                                                  *)
(***************************************************************************)
\* A pixel of the buffer, by the source of its colour:
\*   "background"           self.background, from the initial fill
\*   "miss"                 self.background, written for a cell position whose lookup failed
\*   "data"                 the dataset's own colour at the coordinate
\*   "boundary_unselected", "boundary_selected"   a flagged position with data
\*   "between"              boundary_between_data.color
\*   "colorbar"             gradient stop number x
\* dark: gamma_multiply(0.5) was applied (the position lies in the drag area).
Px(kind, key, x, y, dark) == [kind |-> kind, key |-> key, x |-> x, y |-> y, dark |-> dark]

\* ShowMultiMap::update_color: the colour written for a cell position
update_color(d, rp, sel, area) ==
    LET coordinate == rp.coordinate
        kind == IF lookup(d, coordinate)
                THEN IF rp.is_boundary
                     THEN IF coordinate \in sel THEN "boundary_selected"
                          ELSE "boundary_unselected"
                     ELSE "data"
                ELSE "miss"
        dark == /\ area # None
                /\ Unwrap(area).lt.x <= coordinate.x
                /\ Unwrap(area).lt.y <= coordinate.y
                /\ coordinate.x <= Unwrap(area).rb.x
                /\ coordinate.y <= Unwrap(area).rb.y
    IN Px(kind, d.key, coordinate.x, coordinate.y, dark)

\* Gradient::element_at(row, height): the index into the gradient's stops
element_at(row, height, stops) == (row * stops) \div height

\* The colour render leaves at raster position (column, row). The regions render
\* writes (cells, the strips between them, the colorbar and its separator) do not
\* overlap, so each position is decided by the region it lies in.
render_pixel(column, row, width, height, sets, g, s, area, sel, rect) ==
    LET bt == s.between
        wpd == g.width_per_data
        hpd == g.height_per_data
        cb == Unwrap(s.colorbar)
        cells == {cell \in (0..(g.data_rows - 1)) \X (0..(g.data_columns - 1)) :
                    /\ cell[1] * g.data_columns + cell[2] + 1 <= Len(sets)
                    /\ column >= cell[2] * (wpd + bt) /\ column < cell[2] * (wpd + bt) + wpd
                    /\ row >= cell[1] * (hpd + bt) /\ row < cell[1] * (hpd + bt) + hpd}
        boundary_rows == \E data_row \in 1..(g.data_rows - 1) :
                            /\ row >= data_row * (hpd + bt) - bt
                            /\ row < data_row * (hpd + bt)
                            /\ column < g.plot_width
        boundary_columns == \E data_row \in 0..(g.data_rows - 1) :
                              \E data_column \in 1..(g.data_columns - 1) :
                                /\ row >= data_row * (hpd + bt)
                                /\ row < data_row * (hpd + bt) + hpd
                                /\ column >= data_column * (wpd + bt) - bt
                                /\ column < data_column * (wpd + bt)
    IN IF s.colorbar # None /\ column >= width - cb.thickness
       THEN Px("colorbar", 0, element_at(height - 1 - row, height, cb.stops), 0, FALSE)
       ELSE IF s.colorbar # None /\ column >= width - bt - cb.thickness
       THEN Px("between", 0, 0, 0, FALSE)
       ELSE IF cells # {}
       THEN LET cell == CHOOSE c \in cells : TRUE
                d == sets[cell[1] * g.data_columns + cell[2] + 1]
            IN update_color(d,
                   render_point(column - cell[2] * (wpd + bt), row - cell[1] * (hpd + bt),
                                wpd, hpd, rect, s),
                   sel, area)
       ELSE IF boundary_rows \/ boundary_columns THEN Px("between", 0, 0, 0, FALSE)
       ELSE Px("background", 0, 0, 0, FALSE)

RenderOk(pixels) == [tag |-> "Ok", problem |-> "", pixels |-> pixels]
RenderErr(problem) == [tag |-> "Err", problem |-> problem, pixels |-> <<>>]
RenderAbort == [tag |-> "Abort", problem |-> "", pixels |-> <<>>]

render_rect_mut(d, plot, rect) ==
    IF Len(d) > 0 THEN Some(home_rect(d, plot)) ELSE rect

\* the lazy initialisation of shown_rectangle, multimap.rs 394-400
render_rect(d, plot, rect) ==
    IF rect = None /\ Len(d) > 0 THEN Some(home_rect(d, plot)) ELSE rect

\* ShowMultiMap::render: the value returned. The pixel of (column, row) is
\* pixels[column + row * width + 1].
render(width, height, d, s, area, plot, sel, rect0) ==
    LET rect == render_rect(d, plot, rect0)
        sets == data_sets(d, plot)
        count == Len(sets)
        g == cell_sizes(width, height, count, s)
    IN IF rect = None THEN RenderErr("NoData")
       ELSE IF count = 0 THEN RenderErr("CountIsZero")
       ELSE IF g.tag = "WidthSmallerThanColorBar" THEN RenderErr("WidthSmallerThanColorBar")
       ELSE IF g.tag = "Abort" THEN RenderAbort
       \* width_per_data / delta.x and height_per_data / delta.y, for the first cell
       ELSE IF \/ Unwrap(rect).right_bottom.x - Unwrap(rect).left_top.x = 0
               \/ Unwrap(rect).right_bottom.y - Unwrap(rect).left_top.y = 0
       THEN RenderAbort
       \* self.0[row * self.0.len() / height] on a gradient without stops
       ELSE IF /\ s.colorbar # None
               /\ Unwrap(s.colorbar).stops = 0
               /\ Unwrap(s.colorbar).thickness > 0
               /\ height > 0
       THEN RenderAbort
       ELSE RenderOk([i \in 1..(width * height) |->
                        render_pixel((i - 1) % width, (i - 1) \div width, width, height,
                                     sets, g, s, area, sel, Unwrap(rect))])

(***************************************************************************)
(* The hit-test                                                            *)
(***************************************************************************)
Position(tag, key, x, y) == [tag |-> tag, key |-> key, x |-> x, y |-> y]
NotHovering == Position("NotHovering", 0, 0, 0)
HitAbort == Position("Abort", 0, 0, 0)

\* Gradient::fetch_value(lower, upper, relative_distance) on a gradient of n stops, for
\* lower < upper and relative_distance = num / den. The value returned is
\* lower + k * (upper - lower) / (n - 1) and is kept as k; -1 is NaN, and k = 0 for
\* n = 1 is the midpoint (lower + upper) / 2. floor(relative_distance * n) is computed
\* in f32 by the code and exactly here: for the stops and heights of the model
\* (n = 2, den <= 8) the two floors are the same number.
fetch_value(n, num, den) ==
    IF n = 0 \/ den = 0 THEN -1
    ELSE IF n = 1 THEN 0
    ELSE LET relative_distance == IF num < 0 THEN 0 ELSE IF num > den THEN den ELSE num
             k == (relative_distance * n) \div den
         \* if f > upper { upper }
         IN IF k > n - 1 THEN n - 1 ELSE k

\* ShowMultiMap::convert_multimap2bitmap(MultiMapPoint { x: column, y: row }, [width,
\* height], state). Colorbar(f) is kept as Position("Colorbar", 0, k, 0), k as in
\* fetch_value.
convert_multimap2bitmap(column, row, width, height, d, s, plot, rect0) ==
    LET sets == data_sets(d, plot)
        count == Len(sets)
        g == cell_sizes(width, height, count, s)
        wpd == g.width_per_data
        hpd == g.height_per_data
    IN IF count = 0 THEN NotHovering
       ELSE IF g.tag = "WidthSmallerThanColorBar" THEN NotHovering
       ELSE IF g.tag = "Abort" THEN HitAbort
       \* column / width_per_data, row / height_per_data
       ELSE IF wpd = 0 \/ hpd = 0 THEN HitAbort
       ELSE LET data_column == column \div wpd
                data_row == row \div hpd
                data_index == data_row * g.data_columns + data_column
            IN IF column < g.plot_width
               THEN IF data_index < Len(sets)
                    THEN LET e == sets[data_index + 1]
                             \* state.shown_rectangle.clone().unwrap_or_default()
                             rect == IF rect0 = None THEN Rect(0, 0, 0, 0) ELSE Unwrap(rect0)
                         \* width_per_data / delta.x, height_per_data / delta.y
                         IN IF \/ rect.right_bottom.x - rect.left_top.x = 0
                               \/ rect.right_bottom.y - rect.left_top.y = 0
                            THEN HitAbort
                            ELSE LET rp == render_point(column % wpd, row % hpd, wpd, hpd,
                                                        rect, s)
                                 IN IF lookup(e, rp.coordinate)
                                    THEN Position("Pixel", e.key, rp.coordinate.x,
                                                  rp.coordinate.y)
                                    ELSE Position("NoData", e.key, rp.coordinate.x,
                                                  rp.coordinate.y)
                    ELSE NotHovering
               ELSE IF s.colorbar # None
               THEN IF column + Unwrap(s.colorbar).thickness >= width
                    \* 1. - (row as f32) / (height as f32)
                    THEN Position("Colorbar", 0,
                                  fetch_value(Unwrap(s.colorbar).stops, height - row, height),
                                  0)
                    ELSE NotHovering
               ELSE NotHovering

(***************************************************************************)
(* MultiBitmapWidget and ShowState                                         *)
(***************************************************************************)
\* egui::ColorImage { size, pixels }
ColorImage(sz, pixels) == [size |-> sz, pixels |-> pixels]

GOLD == Px("GOLD", 0, 0, 0, FALSE)

\* egui::ColorImage::new([w, h], Color::GOLD)
ColorImage_new(sz) == ColorImage(sz, [i \in 1..(sz[1] * sz[2]) |-> GOLD])

\* MultiBitmapWidget::with_settings: the fields beside showmap. Sizes are kept as
\* whole numbers of pixels.
with_settings(start_size) ==
    [current_size |-> IF start_size = None THEN <<0, 0>> ELSE Unwrap(start_size),
     dynamic_resizing |-> start_size = None,
     rendered_image |-> ColorImage_new(<<3, 3>>),
     needs_rendering |-> TRUE,
     copy_to_clipboard_delay |-> None,
     hide_key |-> None]

(***************************************************************************)
(* The session: one ShowMultiMap and one MultimapState                     *)
(***************************************************************************)
Op(name, arg) == [name |-> name, arg |-> arg]

\* compute_columns_rows is not being applied
GridIdle == [count |-> 0, returned |-> None]

\* A panic ends the program.
Aborted ==
    \/ rendered # None /\ Unwrap(rendered).tag = "Abort"
    \/ mouse # None /\ \E i \in DOMAIN Unwrap(mouse) : Unwrap(mouse)[i].tag = "Abort"

InWindow(rect) ==
    /\ rect.left_top.x \in 0..MaxCoord /\ rect.right_bottom.x \in 0..MaxCoord
    /\ rect.left_top.y \in 0..MaxCoord /\ rect.right_bottom.y \in 0..MaxCoord

\* with_settings and default_state
New(d, s, sz) ==
    /\ data = d
    /\ settings = s
    /\ drag_area = None
    /\ to_plot = default_state(d).to_plot
    /\ selected = default_state(d).selected
    /\ shown_rectangle = default_state(d).shown_rectangle
    /\ size = sz
    /\ rendered = None
    /\ mouse = None
    /\ op = Op("new", 0)
    /\ widget = with_settings(None)
    /\ states = <<>>
    /\ now = 0
    /\ clipboard = [scheduled |-> 0, copied |-> 0]
    /\ panic = ""

SessionData == <<Dataset(1, 0, 0, 6, 5), Dataset(2, 1, 1, 5, 5)>>
SessionSettings == Settings(1, None, 1, 1)
SessionSize == <<5, 2>>
SessionPoints == {Point(0, 0), Point(4, 4), Point(3, 4)}

Init ==
    /\ New(SessionData, SessionSettings, SessionSize)
    /\ grid = GridIdle

\* a step that changes the view: the last render and hit-test are out of date
Changed(name, arg) ==
    /\ rendered' = None
    /\ mouse' = None
    /\ op' = Op(name, arg)
    /\ UNCHANGED <<data, settings, size, grid>>
    /\ UNCHANGED wvars

Render ==
    /\ ~Aborted
    /\ rendered' = Some(render(size[1], size[2], data, settings, drag_area, to_plot,
                               selected, shown_rectangle))
    /\ shown_rectangle' = render_rect(data, to_plot, shown_rectangle)
    /\ mouse' = None
    /\ op' = Op("render", 0)
    /\ UNCHANGED <<data, settings, drag_area, to_plot, selected, size, grid>>
    /\ UNCHANGED wvars

Home ==
    /\ ~Aborted
    /\ shown_rectangle' = Some(home_rect(data, to_plot))
    /\ Changed("home", 0)
    /\ UNCHANGED <<drag_area, to_plot, selected>>

Zoom ==
    /\ ~Aborted
    /\ shown_rectangle # None
    /\ \E zoom_increment \in (-MaxZoom)..MaxZoom :
          /\ InWindow(zoom(zoom_increment, Unwrap(shown_rectangle)))
          /\ shown_rectangle' = Some(zoom(zoom_increment, Unwrap(shown_rectangle)))
          /\ Changed("zoom", zoom_increment)
    /\ UNCHANGED <<drag_area, to_plot, selected>>

Translate ==
    /\ ~Aborted
    /\ shown_rectangle # None
    /\ \E dx \in (-MaxPan)..MaxPan, dy \in (-MaxPan)..MaxPan :
          /\ InWindow(translate(Point(dx, dy), Unwrap(shown_rectangle)))
          /\ shown_rectangle' = Some(translate(Point(dx, dy), Unwrap(shown_rectangle)))
          /\ Changed("translate", 0)
    /\ UNCHANGED <<drag_area, to_plot, selected>>

TranslateKeyboard ==
    /\ ~Aborted
    /\ shown_rectangle # None
    /\ \E direction \in KeyBoardDirection :
          /\ InWindow(translate_keyboard(direction, Unwrap(shown_rectangle)))
          /\ shown_rectangle' = Some(translate_keyboard(direction, Unwrap(shown_rectangle)))
          /\ Changed("translate_keyboard", 0)
    /\ UNCHANGED <<drag_area, to_plot, selected>>

CenterTo ==
    /\ ~Aborted
    /\ shown_rectangle # None
    /\ \E pos \in SessionPoints :
          /\ InWindow(center_to(pos, Unwrap(shown_rectangle)))
          /\ shown_rectangle' = Some(center_to(pos, Unwrap(shown_rectangle)))
          /\ Changed("center_to", pos)
    /\ UNCHANGED <<drag_area, to_plot, selected>>

DragStart ==
    /\ ~Aborted
    /\ \E pos \in SessionPoints :
          /\ drag_area' = drag_start(pos)
          /\ Changed("drag_start", pos)
    /\ UNCHANGED <<to_plot, selected, shown_rectangle>>

DragIsOngoing ==
    /\ ~Aborted
    /\ \E pos \in SessionPoints :
          /\ drag_area' = drag_is_ongoing(pos, drag_area).drag_area
          /\ Changed("drag_is_ongoing", [pos |-> pos,
                                          returned |-> drag_is_ongoing(pos, drag_area).returned])
    /\ UNCHANGED <<to_plot, selected, shown_rectangle>>

DragRelease ==
    /\ ~Aborted
    /\ shown_rectangle # None
    /\ \E pos \in {None} \cup {Some(p) : p \in SessionPoints} :
          LET r == drag_release(pos, drag_area, Unwrap(shown_rectangle))
          IN /\ InWindow(r.shown_rectangle)
             /\ drag_area' = r.drag_area
             /\ shown_rectangle' = Some(r.shown_rectangle)
             /\ Changed("drag_release", [pos |-> pos, active |-> drag_area # None])
    /\ UNCHANGED <<to_plot, selected>>

Hide ==
    /\ ~Aborted
    /\ \E key \in Keys(data) :
          /\ to_plot' = hide(key, to_plot)
          /\ Changed("hide", key)
    /\ UNCHANGED <<drag_area, selected, shown_rectangle>>

ShowAll ==
    /\ ~Aborted
    /\ to_plot' = show_all(to_plot)
    /\ Changed("show_all", 0)
    /\ UNCHANGED <<drag_area, selected, shown_rectangle>>

Next ==
    \/ Render
    \/ Home
    \/ Zoom
    \/ Translate
    \/ TranslateKeyboard
    \/ CenterTo
    \/ DragStart
    \/ DragIsOngoing
    \/ DragRelease
    \/ Hide
    \/ ShowAll

Spec == Init /\ [][Next]_vars

(***************************************************************************)
(* compute_columns_rows applied to 0..MaxCount                             *)
(***************************************************************************)
InitGrid ==
    /\ New(<<>>, SessionSettings, <<0, 0>>)
    /\ grid \in {[count |-> count, returned |-> None] : count \in 0..MaxCount}

GridCall ==
    /\ grid.returned = None
    /\ grid' = [grid EXCEPT !.returned = Some(compute_columns_rows(grid.count))]
    /\ UNCHANGED <<data, settings, drag_area, to_plot, selected, shown_rectangle,
                   size, rendered, mouse, op>>
    /\ UNCHANGED wvars

NextGrid == GridCall

SpecGrid == InitGrid /\ [][NextGrid]_vars

(***************************************************************************)
(* The selection                                                           *)
(***************************************************************************)
SelectPoints == {Point(x, y) : x \in 0..MaxPoint, y \in 0..1}

Select ==
    /\ ~Aborted
    /\ \E pos \in SelectPoints, ctrl_is_pressed \in BOOLEAN :
          /\ selected' = select(pos, ctrl_is_pressed, selected)
          /\ Changed("select", [pos |-> pos, ctrl_is_pressed |-> ctrl_is_pressed])
    /\ UNCHANGED <<drag_area, to_plot, shown_rectangle>>

\* ShowState::unselect_all and ShowState::clear_selected
UnselectAll ==
    /\ ~Aborted
    /\ selected' = {}
    /\ Changed("unselect_all", 0)
    /\ UNCHANGED <<drag_area, to_plot, shown_rectangle>>

NextSelect ==
    \/ Select
    \/ UnselectAll

SpecSelect == Init /\ [][NextSelect]_vars

(***************************************************************************)
(* render and the hit-test over settings and raster sizes                  *)
(***************************************************************************)
\* three datasets: a 2 x 2 grid with one empty slot when all are shown
RenderData == <<Dataset(1, 0, 0, 2, 2), Dataset(2, 1, 0, 2, 2), Dataset(3, 0, 0, 2, 2)>>

RenderSettings ==
    {Settings(between, colorbar, unselected, 1) :
        between \in 0..MaxBetween,
        colorbar \in {None, Some(Colorbar(1, 2)), Some(Colorbar(1, 0))},
        unselected \in 0..1}

InitRender ==
    /\ \E d \in {<<>>, RenderData}, s \in RenderSettings,
          width \in 0..MaxWidth, height \in 0..MaxHeight :
          New(d, s, <<width, height>>)
    /\ grid = GridIdle

\* the hit-test of every raster position, on the state the last render was given:
\* position (column, row) is mouse[column + row * width + 1]
HitTest ==
    /\ ~Aborted
    /\ rendered # None
    /\ mouse = None
    /\ mouse' = Some([i \in 1..(size[1] * size[2]) |->
                        convert_multimap2bitmap((i - 1) % size[1], (i - 1) \div size[1],
                                                size[1], size[2], data, settings, to_plot,
                                                shown_rectangle)])
    /\ op' = Op("convert_multimap2bitmap", 0)
    /\ UNCHANGED <<data, settings, drag_area, to_plot, selected, shown_rectangle, size,
                   rendered, grid>>
    /\ UNCHANGED wvars

NextRender ==
    \/ Render
    \/ HitTest
    \/ Hide
    \/ ShowAll
    \/ Home

SpecRender == InitRender /\ [][NextRender]_vars

(***************************************************************************)
(* ShowState and the frame of the widget: MultiBitmapWidget::ui            *)
(***************************************************************************)
Event(tag, key) == [tag |-> tag, key |-> key]

\* MultiBitmapWidget::default_state_english (the localization is text)
default_state_english(d) ==
    [multimap |-> default_state(d), mouse |-> NotHovering, clicked |-> FALSE,
     render_problem |-> None, events |-> <<>>]

\* MultiMapPosition::get_pos and get_key
get_pos(m) == IF m.tag \in {"NoData", "Pixel"} THEN Some(Point(m.x, m.y)) ELSE None
get_key(m) == IF m.tag \in {"NoData", "Pixel"} THEN Some(m.key) ELSE None

\* ShowState::make_selected, clear_selected and events (the queue after the take)
make_selected(st, sel) == [st EXCEPT !.multimap.selected = sel]
clear_selected(st) == [st EXCEPT !.multimap.selected = {}]
events(st) == [st EXCEPT !.events = <<>>]

has_hidden(st) == \E k \in DOMAIN st.multimap.to_plot : ~st.multimap.to_plot[k]

can_hide(st) ==
    Cardinality({k \in DOMAIN st.multimap.to_plot : st.multimap.to_plot[k]}) > 1

\* ShowState::hide and ShowState::show_all
ShowState_hide(st, key) ==
    [st EXCEPT !.events = Append(@, Event("Hide", key)),
               !.multimap.to_plot = hide(key, @)]

ShowState_show_all(st) ==
    [st EXCEPT !.events = Append(@, Event("ShowAll", 0)),
               !.multimap.to_plot = show_all(@)]

\* ShowState::unselect_all: the state after the call and the value returned
unselect_all(st) ==
    [state |-> [st EXCEPT !.events = Append(@, Event("UnselectAll", 0)),
                          !.multimap.selected = {}],
     returned |-> st.multimap.selected # {}]

\* ShowState::change_selected, followed by ShowMultiMap::select on the set it returns
change_selected(st, pos, ctrl_is_pressed) ==
    [st EXCEPT !.events = Append(@, Event("Selection", 0)),
               !.multimap.selected = select(pos, ctrl_is_pressed, @)]

COPY_CLIPBOARD_DELAY == 3

\* What one call of ui works on: the widget's fields, the ShowState it was given,
\* showmap.drag_area and the clipboard count. panic names the call that panicked;
\* input_ok is FALSE when the input clicks a button the menu does not show.
Frame(w, st, area, clip) ==
    [widget |-> w, state |-> st, drag_area |-> area, clipboard |-> clip,
     panic |-> "", input_ok |-> TRUE]

Panic(c, call) == [c EXCEPT !.panic = call]

\* one input of a frame
\*   available_size  ui.available_size()
\*   hover           image.hover_pos() as the raster position under it, or None
\*   menu            "closed", "open" (shown, nothing clicked) or the button clicked
\*   pointer         "none", "double_clicked", "clicked", "drag_started",
\*                   "drag_released" or "dragged"
\*   ctrl            modifiers.ctrl
\*   key             "none" or the one key that is down, without modifiers
\*   scroll          the scroll delta after rounding
Input(available_size, hover, menu, pointer, ctrl, key, scroll) ==
    [available_size |-> available_size, hover |-> hover, menu |-> menu,
     pointer |-> pointer, ctrl |-> ctrl, key |-> key, scroll |-> scroll]

\* showmap.render on the ShowState's MultimapState: the value returned
showmap_render(c, sz) ==
    render(sz[1], sz[2], data, settings, c.drag_area, c.state.multimap.to_plot,
           c.state.multimap.selected, c.state.multimap.shown_rectangle)

\* what showmap.render leaves in the MultimapState
showmap_rendered(c) ==
    [c EXCEPT !.state.multimap.shown_rectangle =
                  render_rect(data, c.state.multimap.to_plot, @)]

copied(c, r) ==
    IF r.tag = "Abort" THEN Panic(c, "render")
    \* Err(_) => todo!()
    ELSE IF r.tag = "Err" THEN Panic(c, "copy_to_clipboard")
    ELSE c

\* MultiBitmapWidget::copy_to_clipboard(size, state)
copy_to_clipboard(c, sz) == copied(showmap_rendered(c), showmap_render(c, sz))

delayed_copy(c) == IF c.panic = "" THEN [c EXCEPT !.clipboard.copied = @ + 1] ELSE c

\* ui, lines 322-328: the delayed copy. (A step of ui is not reached once an earlier
\* one has panicked.)
ui_delay(c, t) ==
    IF /\ c.widget.copy_to_clipboard_delay # None
       /\ t - Unwrap(c.widget.copy_to_clipboard_delay).before > COPY_CLIPBOARD_DELAY
    THEN delayed_copy(copy_to_clipboard([c EXCEPT !.widget.copy_to_clipboard_delay = None],
                                        Unwrap(c.widget.copy_to_clipboard_delay).size))
    ELSE c

\* MultiBitmapWidget::update_size; the size returned is current_size afterwards
update_size(c, available_size) ==
    IF c.widget.dynamic_resizing /\ c.widget.current_size # available_size
    THEN [c EXCEPT !.widget.current_size = available_size,
                   !.widget.needs_rendering = TRUE]
    ELSE c

render_image_mut(sz, r) ==
    IF r.tag = "Ok" THEN [image |-> ColorImage(sz, r.pixels), problem |-> None]
    ELSE [image |-> ColorImage_new(<<3, 3>>), problem |-> None]

\* the image and the problem MultiBitmapWidget::render makes of showmap.render's result
render_image(sz, r) ==
    IF r.tag = "Ok" THEN [image |-> ColorImage(sz, r.pixels), problem |-> None]
    ELSE [image |-> ColorImage_new(sz), problem |-> Some(r.problem)]

widget_rendered(c, r) ==
    IF r.tag = "Abort" THEN Panic(c, "render")
    ELSE [c EXCEPT !.state.render_problem = render_image(c.widget.current_size, r).problem,
                   !.widget.rendered_image = render_image(c.widget.current_size, r).image]

\* MultiBitmapWidget::render(state)
MultiBitmapWidget_render(c) ==
    IF c.widget.needs_rendering
    THEN widget_rendered([showmap_rendered(c) EXCEPT !.widget.needs_rendering = FALSE],
                         showmap_render(c, c.widget.current_size))
    ELSE c

\* MultiBitmapWidget::convert_window2bitmap: convert_window2multimap gives no point
\* for a position outside the raster
convert_window2bitmap(hover, sz, m) ==
    IF hover = None THEN NotHovering
    ELSE IF Unwrap(hover).x >= sz[1] \/ Unwrap(hover).y >= sz[2] THEN NotHovering
    ELSE convert_multimap2bitmap(Unwrap(hover).x, Unwrap(hover).y, sz[1], sz[2],
                                 data, settings, m.to_plot, m.shown_rectangle)

hovering(c, m) ==
    IF m.tag = "Abort" THEN Panic(c, "convert_multimap2bitmap")
    ELSE [c EXCEPT !.state.mouse = m]

\* ui, lines 337-339: state.mouse
ui_mouse(c, hover) ==
    IF c.panic # "" THEN c
    ELSE hovering(c, convert_window2bitmap(hover, c.widget.current_size, c.state.multimap))

\* the buttons above the hide key, lines 344-360
menu_home(c, menu) ==
    IF menu = "home"
    THEN [c EXCEPT !.state.multimap.shown_rectangle =
                       Some(home_rect(data, c.state.multimap.to_plot)),
                   !.widget.needs_rendering = TRUE]
    ELSE IF menu = "unselect_all"
    THEN [c EXCEPT !.state = unselect_all(c.state).state,
                   !.widget.needs_rendering = @ \/ unselect_all(c.state).returned]
    ELSE IF menu = "show_all"
    THEN IF has_hidden(c.state)
         THEN [c EXCEPT !.state = ShowState_show_all(@), !.widget.needs_rendering = TRUE]
         ELSE [c EXCEPT !.input_ok = FALSE]
    ELSE c

\* the key to hide, lines 361-365
menu_hide_key(c) ==
    IF get_key(c.state.mouse) # None /\ can_hide(c.state)
    THEN [c EXCEPT !.widget.hide_key = get_key(c.state.mouse)]
    ELSE c

\* the buttons below it, lines 366-388
menu_hide(c, menu, t) ==
    IF menu = "hide"
    THEN IF c.widget.hide_key # None
         THEN [c EXCEPT !.state = ShowState_hide(@, Unwrap(c.widget.hide_key)),
                        !.widget.needs_rendering = TRUE,
                        !.widget.hide_key = None]
         ELSE [c EXCEPT !.input_ok = FALSE]
    ELSE IF menu = "copy" THEN copy_to_clipboard(c, c.widget.current_size)
    ELSE IF menu = "copy_delayed"
    THEN [c EXCEPT !.widget.copy_to_clipboard_delay =
                       Some([before |-> t, size |-> c.widget.current_size]),
                   !.clipboard.scheduled = @ + 1]
    ELSE c

\* ui, lines 342-390: the context menu, when it is shown
context_menu(c, menu, t) ==
    IF c.panic # "" \/ menu = "closed" THEN c
    ELSE menu_hide(menu_hide_key(menu_home(c, menu)), menu, t)

released(c, r) ==
    [c EXCEPT !.drag_area = r.drag_area,
              !.state.multimap.shown_rectangle = Some(r.shown_rectangle),
              !.widget.needs_rendering = TRUE]

ongoing(c, r) ==
    [c EXCEPT !.drag_area = r.drag_area, !.widget.needs_rendering = @ \/ r.returned]

\* ui, lines 394-428: clicks and drags on the image; state.change_rect() panics on
\* an unset shown_rectangle
image_pointer(c, pointer, ctrl, mouse_pos) ==
    IF pointer = "double_clicked" /\ mouse_pos # None
    THEN IF c.state.multimap.shown_rectangle = None THEN Panic(c, "change_rect")
         ELSE [c EXCEPT !.state.multimap.shown_rectangle =
                            Some(center_to(Unwrap(mouse_pos), Unwrap(@))),
                        !.widget.needs_rendering = TRUE]
    ELSE IF pointer = "clicked" /\ mouse_pos # None
    THEN [c EXCEPT !.state = change_selected([@ EXCEPT !.clicked = TRUE],
                                             Unwrap(mouse_pos), ctrl),
                   !.widget.needs_rendering = TRUE]
    ELSE IF pointer = "drag_started" /\ mouse_pos # None
    THEN [c EXCEPT !.drag_area = drag_start(Unwrap(mouse_pos)),
                   !.widget.needs_rendering = TRUE]
    ELSE IF pointer = "drag_released"
    THEN IF c.state.multimap.shown_rectangle = None THEN Panic(c, "change_rect")
         ELSE released(c, drag_release(mouse_pos, c.drag_area,
                                       Unwrap(c.state.multimap.shown_rectangle)))
    ELSE IF pointer = "dragged" /\ mouse_pos # None
    THEN ongoing(c, drag_is_ongoing(Unwrap(mouse_pos), c.drag_area))
    ELSE c

\* ui, lines 392-428
ui_pointer(c, pointer, ctrl, mouse_pos) ==
    IF c.panic # "" THEN c
    ELSE image_pointer([c EXCEPT !.state.clicked = FALSE], pointer, ctrl, mouse_pos)

\* the arrow keys and their directions
ArrowKeys ==
    [ArrowDown |-> "Down", ArrowUp |-> "Up", ArrowRight |-> "Right", ArrowLeft |-> "Left"]

\* ui, lines 431-469: the keyboard, while the image is hovered and nothing has focus
ui_keyboard(c, key, hovered) ==
    IF c.panic # "" \/ ~hovered \/ key = "none" THEN c
    ELSE IF key = "Home"
    THEN [c EXCEPT !.state.multimap.shown_rectangle =
                       Some(home_rect(data, c.state.multimap.to_plot)),
                   !.widget.needs_rendering = TRUE]
    ELSE IF key \notin DOMAIN ArrowKeys \cup {"PlusEquals", "Minus"} THEN c
    ELSE IF c.state.multimap.shown_rectangle = None THEN Panic(c, "change_rect")
    ELSE IF key \in DOMAIN ArrowKeys
    THEN [c EXCEPT !.state.multimap.shown_rectangle =
                       Some(translate_keyboard(ArrowKeys[key], Unwrap(@))),
                   !.widget.needs_rendering = TRUE]
    ELSE [c EXCEPT !.state.multimap.shown_rectangle =
                       Some(zoom(IF key = "PlusEquals" THEN 1 ELSE -1, Unwrap(@))),
                   !.widget.needs_rendering = TRUE]

scroll_translate_mut(c, before, a) ==
    IF a.tag = "Abort" THEN Panic(c, "convert_multimap2bitmap")
    ELSE IF get_pos(a) = None THEN c
    ELSE [c EXCEPT !.state.multimap.shown_rectangle =
                       Some(translate(Point(a.x - before.x, a.y - before.y), Unwrap(@)))]

\* the translation that brings the point under the mouse back, lines 487-499
scroll_translate(c, before, a) ==
    IF a.tag = "Abort" THEN Panic(c, "convert_multimap2bitmap")
    ELSE IF get_pos(a) = None THEN c
    ELSE [c EXCEPT !.state.multimap.shown_rectangle =
                       Some(translate(Point(before.x - a.x, before.y - a.y), Unwrap(@)))]

scroll_zoomed(c, before, hover) ==
    scroll_translate(c, before,
                     convert_window2bitmap(hover, c.widget.current_size, c.state.multimap))

scroll_zoom(c, scroll_delta, hover, b) ==
    IF b.tag = "Abort" THEN Panic(c, "convert_multimap2bitmap")
    ELSE IF get_pos(b) = None THEN c
    ELSE IF c.state.multimap.shown_rectangle = None THEN Panic(c, "change_rect")
    ELSE scroll_zoomed([c EXCEPT !.state.multimap.shown_rectangle =
                                     Some(zoom(scroll_delta, Unwrap(@))),
                                 !.widget.needs_rendering = TRUE],
                       Unwrap(get_pos(b)), hover)

\* ui, lines 471-500: the scroll wheel zooms and keeps the point under the mouse
ui_scroll(c, scroll_delta, hover) ==
    IF c.panic # "" \/ hover = None \/ scroll_delta = 0 THEN c
    ELSE scroll_zoom(c, scroll_delta, hover,
                     convert_window2bitmap(hover, c.widget.current_size, c.state.multimap))

\* ui, lines 502-504
ui_shown(c, shown_before) ==
    IF c.panic = "" /\ c.state.multimap.shown_rectangle # shown_before
    THEN [c EXCEPT !.state.events = Append(@, Event("ShowRectangle", 0))]
    ELSE c

\* ui, line 329
ui_size(c, available_size) ==
    IF c.panic # "" THEN c ELSE update_size(c, available_size)

\* ui, line 330
ui_rendered(c) ==
    IF c.panic # "" THEN c ELSE MultiBitmapWidget_render(c)

\* the frame up to and with the render step, lines 321-330
ui_render(c, in, t) == ui_rendered(ui_size(ui_delay(c, t), in.available_size))

\* the frame after the hit-test, lines 340-504; mouse_pos is taken before the menu
ui_input(c, in, t, shown_before) ==
    ui_shown(
        ui_scroll(
            ui_keyboard(
                ui_pointer(context_menu(c, in.menu, t),
                           in.pointer, in.ctrl, get_pos(c.state.mouse)),
                in.key, in.hover # None),
            in.scroll, in.hover),
        shown_before)

\* MultiBitmapWidget::ui(ui, state) at time t
ui(c, in, t) ==
    ui_input(ui_mouse(ui_render(c, in, t), in.hover), in, t,
             c.state.multimap.shown_rectangle)

(***************************************************************************)
(* The widget and its host: one MultiBitmapWidget, the ShowStates the host *)
(* hands to ui one frame at a time, and the host's calls on a ShowState    *)
(***************************************************************************)
\* with_settings without a start size, and one default_state_english per session
NewWidget(d, s, sessions) ==
    /\ data = d
    /\ settings = s
    /\ drag_area = None
    /\ to_plot = default_state(d).to_plot
    /\ selected = default_state(d).selected
    /\ shown_rectangle = default_state(d).shown_rectangle
    /\ size = <<0, 0>>
    /\ rendered = None
    /\ mouse = None
    /\ op = Op("new", 0)
    /\ grid = GridIdle
    /\ widget = with_settings(None)
    /\ states = [i \in sessions |-> default_state_english(d)]
    /\ now = 0
    /\ clipboard = [scheduled |-> 0, copied |-> 0]
    /\ panic = ""

\* the rectangle lies inside -view..1 + view on both axes
InViewOf(rect, view) ==
    IF rect = None THEN TRUE
    ELSE /\ Unwrap(rect).left_top.x >= -view /\ Unwrap(rect).right_bottom.x <= 1 + view
         /\ Unwrap(rect).left_top.y >= -view /\ Unwrap(rect).right_bottom.y <= 1 + view

InView(rect) == InViewOf(rect, MaxView)

\* One frame: the host calls ui with the ShowState of one session. The host has
\* taken the events of the frame before.
UiIn(inputs, view) ==
    /\ panic = ""
    /\ \A i \in DOMAIN states : states[i].events = <<>>
    /\ \E i \in DOMAIN states, in \in inputs :
          \E c \in {ui(Frame(widget, states[i], drag_area, clipboard), in, now)} :
             /\ c.input_ok
             /\ InViewOf(c.state.multimap.shown_rectangle, view)
             /\ Cardinality(c.state.multimap.selected) <= MaxSelected
             /\ c.clipboard.scheduled <= MaxScheduled
             /\ widget' = c.widget
             /\ states' = [states EXCEPT ![i] = c.state]
             /\ drag_area' = c.drag_area
             /\ clipboard' = c.clipboard
             /\ panic' = c.panic
             /\ op' = Op("ui", [session |-> i, input |-> in])
    /\ UNCHANGED <<data, settings, to_plot, selected, shown_rectangle, size, rendered,
                   mouse, grid, now>>

Ui(inputs) == UiIn(inputs, MaxView)

\* the host's call on a ShowState
Host(name, i, st) ==
    /\ panic = ""
    /\ states' = [states EXCEPT ![i] = st]
    /\ op' = Op(name, i)
    /\ UNCHANGED <<data, settings, drag_area, to_plot, selected, shown_rectangle, size,
                   rendered, mouse, grid, widget, now, clipboard, panic>>

Events ==
    \E i \in DOMAIN states :
        /\ states[i].events # <<>>
        /\ Host("events", i, events(states[i]))

HostPoints == {Point(0, 0)}

MakeSelected ==
    \E i \in DOMAIN states :
        /\ states[i].events = <<>>
        /\ states[i].multimap.selected # HostPoints
        /\ Host("make_selected", i, make_selected(states[i], HostPoints))

ClearSelected ==
    \E i \in DOMAIN states :
        /\ states[i].events = <<>>
        /\ states[i].multimap.selected # {}
        /\ Host("clear_selected", i, clear_selected(states[i]))

\* time passes between two frames
Tick ==
    /\ panic = ""
    /\ now < MaxNow
    /\ now' = now + 1
    /\ op' = Op("tick", 0)
    /\ UNCHANGED <<data, settings, drag_area, to_plot, selected, shown_rectangle, size,
                   rendered, mouse, grid, widget, states, clipboard, panic>>

\* two datasets of one point each, drawn side by side
WidgetData == <<Dataset(1, 0, 0, 1, 1), Dataset(2, 0, 0, 1, 1)>>
WidgetSettings == Settings(0, None, 1, 1)
WidgetSizes == {<<4, 2>>, <<2, 2>>}
\* over the first dataset, over the second (at the larger size), not over the image
WidgetHover == {Some(Point(0, 0)), Some(Point(3, 1)), None}

\* the inputs of a frame: at most one of menu, pointer, key and scroll at a time
Inputs(sizes, hovers, menus, pointers, keys, scrolls) ==
    UNION {
        {Input(a, h, "closed", "none", FALSE, "none", 0)}
        \cup {Input(a, h, m, "none", FALSE, "none", 0) : m \in menus}
        \cup {Input(a, h, "closed", p[1], p[2], "none", 0) : p \in pointers}
        \cup {Input(a, h, "closed", "none", FALSE, k, 0) : k \in keys}
        \cup {Input(a, h, "closed", "none", FALSE, "none", d) : d \in scrolls}
        : <<a, h>> \in sizes \X hovers}

WidgetInputs ==
    Inputs(WidgetSizes, WidgetHover, {"home", "unselect_all"},
           {<<"clicked", FALSE>>, <<"clicked", TRUE>>}, {}, {})

\* one session, over no data or over WidgetData
InitWidget == \E d \in {<<>>, WidgetData} : NewWidget(d, WidgetSettings, {1})

UiWidget == Ui(WidgetInputs)

NextWidget ==
    \/ UiWidget
    \/ Events
    \/ MakeSelected
    \/ ClearSelected

SpecWidget == InitWidget /\ [][NextWidget]_vars

\* one session: the inputs that move the shown rectangle
InteractInputs ==
    Inputs({<<4, 2>>}, {Some(Point(0, 0)), None}, {},
           {<<"double_clicked", FALSE>>, <<"drag_started", FALSE>>, <<"dragged", FALSE>>,
            <<"drag_released", FALSE>>},
           {"ArrowRight", "Minus", "Home"}, {-1})

InitInteract == \E d \in {<<>>, WidgetData} : NewWidget(d, WidgetSettings, {1})

UiInteract == Ui(InteractInputs)

NextInteract ==
    \/ UiInteract
    \/ Events

SpecInteract == InitInteract /\ [][NextInteract]_vars

\* two sessions shown in turn by one widget: the context menu's Hide and Show all
SessionsInputs ==
    Inputs({<<4, 2>>}, WidgetHover, {"open", "hide", "show_all"}, {}, {}, {})

InitSessions == NewWidget(WidgetData, WidgetSettings, {1, 2})

UiSessions == Ui(SessionsInputs)

NextSessions ==
    \/ UiSessions
    \/ Events

SpecSessions == InitSessions /\ [][NextSessions]_vars

\* one session: the two copies of the context menu, and time
ClipboardInputs ==
    Inputs({<<4, 2>>}, {None}, {"copy", "copy_delayed"}, {}, {}, {})

InitClipboard == \E d \in {<<>>, WidgetData} : NewWidget(d, WidgetSettings, {1})

UiClipboard == Ui(ClipboardInputs)

NextClipboard ==
    \/ UiClipboard
    \/ Events
    \/ Tick

SpecClipboard == InitClipboard /\ [][NextClipboard]_vars

\* one session over one dataset of 2 x 2 points on a raster of 4 x 2 pixels: the
\* scroll wheel at every pixel of the raster. Zooming out from the home rectangle
\* passes from 2 x 1 pixels per point over 1 x 0 to 0 x 0.
ScrollData == <<Dataset(1, 0, 0, 2, 2)>>
ScrollHover == {Some(Point(x, y)) : x \in 0..3, y \in 0..1}
ScrollInputs == Inputs({<<4, 2>>}, ScrollHover, {}, {}, {}, {-1, 1})

InitScroll == NewWidget(ScrollData, WidgetSettings, {1})

UiScroll == UiIn(ScrollInputs, MaxScroll)

NextScroll ==
    \/ UiScroll
    \/ Events

SpecScroll == InitScroll /\ [][NextScroll]_vars

(***************************************************************************)
(* Properties                                                              *)
(***************************************************************************)
ExtentX(rect) == rect.right_bottom.x - rect.left_top.x
ExtentY(rect) == rect.right_bottom.y - rect.left_top.y

\* C2: compute_columns_rows(0) = (0, 0); for count >= 1 the columns are
\* ceil(sqrt(count)) and the rows are the smallest number with rows * columns >= count;
\* the table of the repository's test holds.
GoldenGrid ==
    [count \in {1, 2, 3, 5, 7, 10, 13, 17} |->
        CASE count = 1 -> <<1, 1>> [] count = 2 -> <<2, 1>> [] count = 3 -> <<2, 2>>
          [] count = 5 -> <<3, 2>> [] count = 7 -> <<3, 3>> [] count = 10 -> <<4, 3>>
          [] count = 13 -> <<4, 4>> [] count = 17 -> <<5, 4>>]

C2_ComputeGrid ==
    grid.returned # None =>
        LET count == grid.count
            columns == Unwrap(grid.returned)[1]
            rows == Unwrap(grid.returned)[2]
        IN /\ count = 0 => columns = 0 /\ rows = 0
           /\ count >= 1 => /\ columns >= 1 /\ rows >= 1
                            /\ columns * columns >= count
                            /\ (columns - 1) * (columns - 1) < count
                            /\ rows * columns >= count
                            /\ (rows - 1) * columns < count
           /\ count \in DOMAIN GoldenGrid => <<columns, rows>> = GoldenGrid[count]

C2_Witness == grid.count = 17 /\ grid.returned = Some(<<5, 4>>)

\* C3: once shown_rectangle is set, right_bottom lies strictly right of and below
\* left_top in every reachable state.
C3_ShownRectangle ==
    shown_rectangle # None =>
        /\ Unwrap(shown_rectangle).right_bottom.x > Unwrap(shown_rectangle).left_top.x
        /\ Unwrap(shown_rectangle).right_bottom.y > Unwrap(shown_rectangle).left_top.y

\* a zoom-in on the 1 x 1 rectangle that home gives when every dataset is hidden
C3_Witness ==
    /\ op.name = "zoom" /\ op.arg > 0
    /\ \A k \in DOMAIN to_plot : ~to_plot[k]
    /\ shown_rectangle = Some(Rect(0, 0, 1, 1))

\* C4: zoom never takes an axis of extent >= 4 below 4; a zoom-in that would do so
\* leaves the axis unchanged; a zoom-out grows each axis by |delta| on each side.
C4_ZoomInvariant ==
    [][op'.name = "zoom" =>
        LET delta == op'.arg
            before == Unwrap(shown_rectangle)
            after == Unwrap(shown_rectangle')
        IN /\ ExtentX(before) >= 4 => ExtentX(after) >= 4
           /\ ExtentY(before) >= 4 => ExtentY(after) >= 4
           /\ (delta > 0 /\ ExtentX(before) >= 4 /\ ExtentX(before) - 2 * delta < 4) =>
                 /\ after.left_top.x = before.left_top.x
                 /\ after.right_bottom.x = before.right_bottom.x
           /\ (delta > 0 /\ ExtentY(before) >= 4 /\ ExtentY(before) - 2 * delta < 4) =>
                 /\ after.left_top.y = before.left_top.y
                 /\ after.right_bottom.y = before.right_bottom.y
           /\ delta < 0 => /\ after.left_top.x = before.left_top.x + delta
                           /\ after.left_top.y = before.left_top.y + delta
                           /\ after.right_bottom.x = before.right_bottom.x - delta
                           /\ after.right_bottom.y = before.right_bottom.y - delta]_vars

\* a zoom-in that was refused on both axes of a 5 x 5 rectangle
C4_Witness ==
    /\ op.name = "zoom" /\ op.arg = 1
    /\ ExtentX(Unwrap(shown_rectangle)) = 5 /\ ExtentY(Unwrap(shown_rectangle)) = 5

AppliedX(delta, before, after) ==
    /\ after.left_top.x = before.left_top.x + delta
    /\ after.right_bottom.x = before.right_bottom.x - delta
AppliedY(delta, before, after) ==
    /\ after.left_top.y = before.left_top.y + delta
    /\ after.right_bottom.y = before.right_bottom.y - delta
UnchangedX(before, after) ==
    /\ after.left_top.x = before.left_top.x
    /\ after.right_bottom.x = before.right_bottom.x
UnchangedY(before, after) ==
    /\ after.left_top.y = before.left_top.y
    /\ after.right_bottom.y = before.right_bottom.y

\* C5, as stated: a zoom-in is applied on an axis only if the extent that results on
\* the axis is greater than 3 + 2 * delta; an axis that is not applied is unchanged.
C5_ZoomInGuard_Stated ==
    [][(op'.name = "zoom" /\ op'.arg > 0) =>
        LET delta == op'.arg
            before == Unwrap(shown_rectangle)
            after == Unwrap(shown_rectangle')
        IN /\ \/ AppliedX(delta, before, after) /\ ExtentX(after) > 3 + 2 * delta
              \/ UnchangedX(before, after)
           /\ \/ AppliedY(delta, before, after) /\ ExtentY(after) > 3 + 2 * delta
              \/ UnchangedY(before, after)]_vars

\* C5: a zoom-in is applied on an axis exactly when the extent of the axis before the
\* zoom is greater than 3 + 2 * delta (so the extent that results is greater than 3);
\* each axis is decided by its own extent, and an axis that is not applied is unchanged.
C5_ZoomInGuard ==
    [][(op'.name = "zoom" /\ op'.arg > 0) =>
        LET delta == op'.arg
            before == Unwrap(shown_rectangle)
            after == Unwrap(shown_rectangle')
        IN /\ IF ExtentX(before) > 3 + 2 * delta
              THEN AppliedX(delta, before, after) /\ ExtentX(after) > 3
              ELSE UnchangedX(before, after)
           /\ IF ExtentY(before) > 3 + 2 * delta
              THEN AppliedY(delta, before, after) /\ ExtentY(after) > 3
              ELSE UnchangedY(before, after)]_vars

\* a zoom-in applied on the x axis (6 to 4) and refused on the y axis (5)
C5_Witness ==
    /\ op.name = "zoom" /\ op.arg = 1
    /\ ExtentX(Unwrap(shown_rectangle)) = 4 /\ ExtentY(Unwrap(shown_rectangle)) = 5

\* C6, as stated: select(p, false) leaves selected = {p}, except that it leaves {}
\* when p was the only selected point.
C6_NonAdditiveSelect ==
    [][(op'.name = "select" /\ ~op'.arg.ctrl_is_pressed) =>
        selected' = IF selected = {op'.arg.pos} THEN {} ELSE {op'.arg.pos}]_vars

C8_DragStateLifetime ==
    [][/\ op'.name = "drag_start" => drag_area' # None
       /\ op'.name = "drag_release" => drag_area' = None
       /\ (drag_area = None /\ drag_area' # None) => op'.name = "drag_start"
       /\ (drag_area # None /\ drag_area' = None) => op'.name = "drag_release"
       /\ (op'.name = "render" /\ drag_area' = None /\ Unwrap(rendered').tag = "Ok") =>
             \A i \in DOMAIN Unwrap(rendered').pixels : ~Unwrap(rendered').pixels[i].dark]_vars

\* an active drag was released without a release point
C8_Witness ==
    /\ op.name = "drag_release" /\ op.arg.active /\ op.arg.pos = None
    /\ drag_area = None

\* C9, as stated: render returns a pixel buffer or a RenderProblem, it never aborts.
C9_RenderNeverAborts ==
    rendered # None => Unwrap(rendered).tag \in {"Ok", "Err"}

\* C1, as stated: where render paints the data colour of dataset D at coordinate C,
\* the hit-test returns Pixel(D.key, C); where render paints the background for a
\* position of D's cell whose coordinate C has no data, it returns NoData(D.key, C).
C1_RenderHitTestAgree ==
    (rendered # None /\ mouse # None /\ Unwrap(rendered).tag = "Ok") =>
        \A i \in DOMAIN Unwrap(mouse) :
            LET px == Unwrap(rendered).pixels[i]
                returned == Unwrap(mouse)[i]
            IN /\ px.kind = "data" => returned = Position("Pixel", px.key, px.x, px.y)
               /\ px.kind = "miss" => returned = Position("NoData", px.key, px.x, px.y)

\* C10, as stated: when width_per_data or height_per_data is 0, render succeeds and
\* the hit-test returns a position for every raster position, without aborting.
C10_ZeroSizedCells ==
    LET g == cell_sizes(size[1], size[2], Len(data_sets(data, to_plot)), settings)
    IN (/\ rendered # None /\ mouse # None
        /\ Len(data_sets(data, to_plot)) > 0
        /\ g.tag = "Ok"
        /\ (g.width_per_data = 0 \/ g.height_per_data = 0)) =>
            /\ Unwrap(rendered).tag = "Ok"
            /\ \A i \in DOMAIN Unwrap(mouse) : Unwrap(mouse)[i].tag # "Abort"

\* C11, as stated: when render returns a RenderProblem, to_plot, selected and
\* shown_rectangle (also an unset one) are the same after the call as before it.
C11_StateUnchangedOnProblem ==
    [][(op'.name = "render" /\ Unwrap(rendered').tag = "Err") =>
          /\ to_plot' = to_plot
          /\ selected' = selected
          /\ shown_rectangle' = shown_rectangle]_vars

\* C12, as stated: render fails with NoData exactly when the dataset list is empty,
\* and with CountIsZero exactly when the list is not empty and every dataset is hidden.
C12_ProblemClassification ==
    rendered # None =>
        LET r == Unwrap(rendered)
        IN /\ (r.tag = "Err" /\ r.problem = "NoData") <=> (Len(data) = 0)
           /\ (r.tag = "Err" /\ r.problem = "CountIsZero") <=>
                 (Len(data) > 0 /\ Len(data_sets(data, to_plot)) = 0)

\* the bounding boxes of the datasets to plot
VisibleBoxes == {bounding_box(data[i]) : i \in {j \in 1..Len(data) : to_plot_of(to_plot, data[j].key)}}

\* rect is the smallest rectangle that contains every box of boxes
SmallestContaining(rect, boxes) ==
    /\ \A b \in boxes : /\ rect.left_top.x <= b.left_top.x
                        /\ rect.left_top.y <= b.left_top.y
                        /\ rect.right_bottom.x >= b.right_bottom.x
                        /\ rect.right_bottom.y >= b.right_bottom.y
    /\ \E b \in boxes : rect.left_top.x = b.left_top.x
    /\ \E b \in boxes : rect.left_top.y = b.left_top.y
    /\ \E b \in boxes : rect.right_bottom.x = b.right_bottom.x
    /\ \E b \in boxes : rect.right_bottom.y = b.right_bottom.y

\* C14: home sets shown_rectangle to the smallest rectangle that contains the
\* bounding boxes of the datasets to plot, and a render that finds shown_rectangle
\* unset sets it to the same rectangle.
C14_HomeIsBoundingUnion ==
    [][/\ (op'.name = "home" /\ VisibleBoxes # {}) =>
             SmallestContaining(Unwrap(shown_rectangle'), VisibleBoxes)
       /\ (op'.name = "render" /\ shown_rectangle = None /\ VisibleBoxes # {}) =>
             SmallestContaining(Unwrap(shown_rectangle'), VisibleBoxes)
       /\ (op'.name = "render" /\ shown_rectangle = None /\ Len(data) > 0) =>
             shown_rectangle' = Some(home_rect(data, to_plot))]_vars

\* home with the first dataset hidden: the rectangle is the second one's box
C14_Witness ==
    /\ op.name = "home"
    /\ ~to_plot[1] /\ to_plot[2]
    /\ shown_rectangle = Some(Rect(1, 1, 6, 6))

\* C15: center_to(point) keeps both extents; on each axis 2 * point - (left_top +
\* right_bottom) is 0 for an even extent and 1 for an odd one.
C15_CenterTo ==
    [][op'.name = "center_to" =>
        LET pos == op'.arg
            before == Unwrap(shown_rectangle)
            after == Unwrap(shown_rectangle')
        IN /\ ExtentX(after) = ExtentX(before)
           /\ ExtentY(after) = ExtentY(before)
           /\ 2 * pos.x - (after.left_top.x + after.right_bottom.x) = ExtentX(before) % 2
           /\ 2 * pos.y - (after.left_top.y + after.right_bottom.y) = ExtentY(before) % 2]_vars

\* center_to on a rectangle whose horizontal extent is odd
C15_Witness ==
    /\ op.name = "center_to"
    /\ ExtentX(Unwrap(shown_rectangle)) % 2 = 1
    /\ 2 * op.arg.x - (Unwrap(shown_rectangle).left_top.x
                         + Unwrap(shown_rectangle).right_bottom.x) = 1

\* the session of the frame that made the last step, and what ui appended to its events
FrameSession == op'.arg.session
Appended ==
    {states'[FrameSession].events[n] :
        n \in (Len(states[FrameSession].events) + 1)..Len(states'[FrameSession].events)}

\* showmap.render on what the frame was given, at the size the frame has set
Rasterized ==
    render(widget'.current_size[1], widget'.current_size[2], data, settings, drag_area,
           states[FrameSession].multimap.to_plot, states[FrameSession].multimap.selected,
           states[FrameSession].multimap.shown_rectangle)

\* the frame renders: needs_rendering was set, or update_size has set it
Renders ==
    /\ op'.name = "ui"
    /\ widget.needs_rendering \/ widget'.current_size # widget.current_size
    /\ Rasterized.tag # "Abort"

\* C13: a render that succeeds returns width * height pixels, which the widget shows;
\* on a RenderProblem the widget shows a buffer of the same size filled with GOLD and
\* records the problem in the ShowState.
C13_RenderedBuffer ==
    [][Renders =>
        LET sz == widget'.current_size
            image == widget'.rendered_image
        IN /\ image.size = sz
           /\ Len(image.pixels) = sz[1] * sz[2]
           /\ Rasterized.tag = "Ok" =>
                 /\ Len(Rasterized.pixels) = sz[1] * sz[2]
                 /\ image.pixels = Rasterized.pixels
                 /\ states'[FrameSession].render_problem = None
           /\ Rasterized.tag = "Err" =>
                 /\ \A n \in 1..Len(image.pixels) : image.pixels[n] = GOLD
                 /\ states'[FrameSession].render_problem = Some(Rasterized.problem)]_vars

\* a frame over no data: NoData is recorded and 4 x 2 GOLD pixels are shown
C13_Witness ==
    /\ op.name = "ui"
    /\ states[1].render_problem = Some("NoData")
    /\ widget.rendered_image = ColorImage_new(<<4, 2>>)
    /\ Len(widget.rendered_image.pixels) = 8

\* C16, as stated: whatever the context menu does (opened, Hide, Show all), on
\* one session or on several in turn, every session keeps a dataset to plot.
C16_OneDatasetStaysVisible ==
    \A i \in DOMAIN states :
        Len(data) > 0 => Len(data_sets(data, states[i].multimap.to_plot)) > 0

\* C17, as stated: no frame panics in the hit-test or in an operation on the shown
\* rectangle (state.change_rect()).
C17_InteractionNeverFails ==
    panic \notin {"change_rect", "convert_multimap2bitmap"}

\* C18, as stated: a frame appends a Selection event exactly when the selected set
\* at its end differs from the one at its start.
C18_SelectionEvent ==
    [][op'.name = "ui" =>
          ((Event("Selection", 0) \in Appended)
             <=> (states'[FrameSession].multimap.selected
                    # states[FrameSession].multimap.selected))]_vars

\* C19, as stated: every scheduled delayed copy is made, once; so while none is
\* pending as many copies were made as were scheduled.
C19_EveryScheduledCopyIsMade ==
    (panic = "" /\ widget.copy_to_clipboard_delay = None) =>
        clipboard.copied = clipboard.scheduled

\* C20, as stated: after the render step of a frame the image shown is the
\* rasterization of the size and the session state of that frame.
C20_ShownImageIsCurrent ==
    [][(op'.name = "ui" /\ panic' = "" /\ Rasterized.tag # "Abort") =>
          widget'.rendered_image = render_image(widget'.current_size, Rasterized).image]_vars

\* C21, as stated: a raster position that render leaves outside every cell (a strip
\* between cells, the remainder right of or below the grid, a slot without a dataset,
\* the separator left of the colorbar) and outside the colorbar hit-tests to
\* NotHovering.
C21_NotHoveringOutsideCells ==
    (rendered # None /\ mouse # None /\ Unwrap(rendered).tag = "Ok") =>
        \A i \in DOMAIN Unwrap(mouse) :
            (/\ Unwrap(rendered).pixels[i].kind \in {"background", "between"}
             /\ Unwrap(mouse)[i].tag # "Abort")
                => Unwrap(mouse)[i] = NotHovering

\* C22, as stated: on a colorbar position of row r the hit-test returns
\* Colorbar(lower + k * (upper - lower) / (n - 1)), k the index of the gradient stop
\* that render paints in row r.
C22_ColorbarHitTestInvertsRender ==
    (rendered # None /\ mouse # None /\ Unwrap(rendered).tag = "Ok") =>
        \A i \in DOMAIN Unwrap(mouse) :
            (/\ Unwrap(rendered).pixels[i].kind = "colorbar"
             /\ Unwrap(mouse)[i].tag # "Abort")
                => Unwrap(mouse)[i] = Position("Colorbar", 0, Unwrap(rendered).pixels[i].x, 0)

\* the grid of the last render and the raster position of cell position (column, row)
\* of the cell in (data_row, data_column), as update_color computes it
RenderedGrid == cell_sizes(size[1], size[2], Len(data_sets(data, to_plot)), settings)
RasterIndex(data_row, data_column, row, column) ==
    (column + data_column * (RenderedGrid.width_per_data + settings.between))
      + (row + data_row * (RenderedGrid.height_per_data + settings.between)) * size[1] + 1

\* the cell positions of the last render: the slots that hold a dataset, and the
\* positions of one cell
RenderedCells ==
    {cell \in (0..(RenderedGrid.data_rows - 1)) \X (0..(RenderedGrid.data_columns - 1)) :
        cell[1] * RenderedGrid.data_columns + cell[2] + 1 <= Len(data_sets(data, to_plot))}
CellPositions ==
    (0..(RenderedGrid.height_per_data - 1)) \X (0..(RenderedGrid.width_per_data - 1))

\* position pos of an axis of per_data pixels that shows extent points lies in the
\* centring margin: before the first block or after the last whole block
InMargin(pos, per_data, extent) ==
    LET per_point == per_data \div extent
        offset == ((per_data % per_point) + 1) \div 2
    IN per_point > 0 /\ (pos < offset \/ pos - offset >= extent * per_point)

\* C23, as stated: in the regime with pixels-per-point > 0 on both axes every cell
\* position in the centring margin of an axis is rendered as background (its
\* coordinate misses the dataset).
C23_MarginPixelsMiss ==
    (rendered # None /\ Unwrap(rendered).tag = "Ok") =>
        LET rect == Unwrap(shown_rectangle)
            g == RenderedGrid
        IN \A cell \in RenderedCells : \A pos \in CellPositions :
              (/\ g.width_per_data \div ExtentX(rect) > 0
               /\ g.height_per_data \div ExtentY(rect) > 0
               /\ \/ InMargin(pos[2], g.width_per_data, ExtentX(rect))
                  \/ InMargin(pos[1], g.height_per_data, ExtentY(rect)))
                 => Unwrap(rendered).pixels[RasterIndex(cell[1], cell[2], pos[1], pos[2])].kind
                       = "miss"

\* the position pos of an axis lies within thickness of the edge of its block
NearEdge(pos, per_data, extent, thickness) ==
    LET per_point == per_data \div extent
        rem == (pos - ((per_data % per_point) + 1) \div 2) % per_point
    IN rem < thickness \/ rem + thickness >= per_point

\* the cell position lies in a block on each of its axes that has blocks
InBlock(pos, g, rect) ==
    /\ ~InMargin(pos[2], g.width_per_data, ExtentX(rect))
    /\ ~InMargin(pos[1], g.height_per_data, ExtentY(rect))

\* the RenderPoint of a position of a cell of the last render, and whether render
\* painted the position of the cell in (data_row, data_column) as flagged or not
RenderPointAt(pos) ==
    render_point(pos[2], pos[1], RenderedGrid.width_per_data, RenderedGrid.height_per_data,
                 Unwrap(shown_rectangle), settings)
PaintedAs(cell, pos, is_boundary) ==
    Unwrap(rendered).pixels[RasterIndex(cell[1], cell[2], pos[1], pos[2])]
      = update_color(data_sets(data, to_plot)[cell[1] * RenderedGrid.data_columns + cell[2] + 1],
                     [coordinate |-> RenderPointAt(pos).coordinate, is_boundary |-> is_boundary],
                     selected, drag_area)

\* C24, as stated: a position inside a block is flagged because of an axis exactly
\* when it lies within boundary_unselected.thickness of the block edge on that axis
\* and the pixels-per-point of that axis is > 0 and exceeds boundary_factor_min *
\* boundary_unselected.thickness.
C24_BoundaryFlag_Stated ==
    (rendered # None /\ Unwrap(rendered).tag = "Ok") =>
        LET rect == Unwrap(shown_rectangle)
            g == RenderedGrid
            limit == settings.factor_min * settings.unselected
            flag_x(pos) == /\ g.width_per_data \div ExtentX(rect) > 0
                           /\ g.width_per_data \div ExtentX(rect) > limit
                           /\ NearEdge(pos[2], g.width_per_data, ExtentX(rect),
                                       settings.unselected)
            flag_y(pos) == /\ g.height_per_data \div ExtentY(rect) > 0
                           /\ g.height_per_data \div ExtentY(rect) > limit
                           /\ NearEdge(pos[1], g.height_per_data, ExtentY(rect),
                                       settings.unselected)
        IN \A cell \in RenderedCells : \A pos \in CellPositions :
              InBlock(pos, g, rect) =>
                 /\ RenderPointAt(pos).is_boundary <=> (flag_x(pos) \/ flag_y(pos))
                 /\ PaintedAs(cell, pos, flag_x(pos) \/ flag_y(pos))

\* C24: a position inside a block is flagged exactly when the boundary thickness
\* applies and the position lies within boundary_unselected.thickness of the block
\* edge on an axis with pixels-per-point > 0. The thickness applies when the
\* pixels-per-point of every axis on which it is > 0 exceeds boundary_factor_min *
\* boundary_unselected.thickness: of both axes when both are > 0, of the one axis in
\* a mixed regime. An axis with pixels-per-point 0 never flags, so with 0 on both
\* axes no position is flagged.
C24_BoundaryFlag ==
    (rendered # None /\ Unwrap(rendered).tag = "Ok") =>
        LET rect == Unwrap(shown_rectangle)
            g == RenderedGrid
            limit == settings.factor_min * settings.unselected
            width_per_point == g.width_per_data \div ExtentX(rect)
            height_per_point == g.height_per_data \div ExtentY(rect)
            applies == /\ width_per_point > 0 \/ height_per_point > 0
                       /\ width_per_point > 0 => width_per_point > limit
                       /\ height_per_point > 0 => height_per_point > limit
            flag(pos) ==
                /\ applies
                /\ \/ /\ width_per_point > 0
                      /\ NearEdge(pos[2], g.width_per_data, ExtentX(rect), settings.unselected)
                   \/ /\ height_per_point > 0
                      /\ NearEdge(pos[1], g.height_per_data, ExtentY(rect), settings.unselected)
        IN \A cell \in RenderedCells : \A pos \in CellPositions :
              InBlock(pos, g, rect) =>
                 /\ RenderPointAt(pos).is_boundary <=> flag(pos)
                 /\ PaintedAs(cell, pos, flag(pos))
                 /\ (width_per_point = 0 /\ height_per_point = 0) =>
                       ~RenderPointAt(pos).is_boundary

\* one cell of 5 x 3 pixels showing 2 x 2 points with boundary_unselected.thickness 1:
\* 2 pixels per point across exceed the limit, 1 pixel per point down does not, and
\* no position is painted as boundary
C24_Witness ==
    /\ rendered # None /\ Unwrap(rendered).tag = "Ok"
    /\ size = <<5, 3>> /\ settings.unselected = 1
    /\ Len(data_sets(data, to_plot)) = 1
    /\ ExtentX(Unwrap(shown_rectangle)) = 2 /\ ExtentY(Unwrap(shown_rectangle)) = 2
    /\ \A i \in DOMAIN Unwrap(rendered).pixels :
          Unwrap(rendered).pixels[i].kind \in {"data", "miss"}
    /\ \E i \in DOMAIN Unwrap(rendered).pixels : Unwrap(rendered).pixels[i].kind = "data"

\* C25: select(p, additive = true) on a selected set S leaves S \ {p} when p is in S
\* and S + {p} otherwise; the membership of every other point, and the rest of the
\* state, is unchanged; a second select(p, true) restores S.
C25_AdditiveSelectToggles ==
    [][(op'.name = "select" /\ op'.arg.ctrl_is_pressed) =>
        LET p == op'.arg.pos
        IN /\ selected' = IF p \in selected THEN selected \ {p} ELSE selected \cup {p}
           /\ \A q \in (selected \cup selected' \cup SelectPoints) \ {p} :
                 (q \in selected') <=> (q \in selected)
           /\ select(p, TRUE, selected') = selected
           /\ UNCHANGED <<to_plot, shown_rectangle, drag_area>>]_vars

\* (0, 0) was toggled out of a selection of three points
C25_Witness ==
    /\ op.name = "select" /\ op.arg.ctrl_is_pressed /\ op.arg.pos = Point(0, 0)
    /\ selected = {Point(1, 0), Point(2, 1)}

\* C26: with a drag anchored at a, drag_is_ongoing(p) sets the drag rectangle to
\* (min(a, p), max(a, p)) componentwise, keeps the anchor and returns true exactly
\* when the rectangle differs from the one stored before; without a drag it returns
\* false and leaves the drag state None. A drag state that is Some has its left-top
\* componentwise <= its right-bottom.
C26_DragIsOngoing ==
    [][/\ op'.name = "drag_is_ongoing" =>
             LET p == op'.arg.pos
             IN IF drag_area # None
                THEN LET a == Unwrap(drag_area).start
                         lt == Point(Min(a.x, p.x), Min(a.y, p.y))
                         rb == Point(Max(a.x, p.x), Max(a.y, p.y))
                     IN /\ drag_area' = Some(DragArea(lt, rb, a))
                        /\ op'.arg.returned
                             <=> (Unwrap(drag_area).lt # lt \/ Unwrap(drag_area).rb # rb)
                ELSE drag_area' = None /\ ~op'.arg.returned
       /\ drag_area' # None =>
             /\ Unwrap(drag_area').lt.x <= Unwrap(drag_area').rb.x
             /\ Unwrap(drag_area').lt.y <= Unwrap(drag_area').rb.y]_vars

\* a drag anchored at (4, 4) was moved to (0, 0): the rectangle is (0, 0)-(4, 4)
C26_Witness ==
    /\ op.name = "drag_is_ongoing" /\ op.arg.pos = Point(0, 0) /\ op.arg.returned
    /\ drag_area = Some(DragArea(Point(0, 0), Point(4, 4), Point(4, 4)))

AtScroll ==
    ui_mouse(ui_render(Frame(widget, states[FrameSession], drag_area, clipboard),
                       op'.arg.input, now),
             op'.arg.input.hover)
\* the position under the mouse of the frame at: as it is, and with the rectangle
\* that zoom(delta) makes of its shown rectangle
ScrollBefore(at) ==
    convert_window2bitmap(op'.arg.input.hover, at.widget.current_size, at.state.multimap)
ScrollAfter(at) ==
    convert_window2bitmap(op'.arg.input.hover, at.widget.current_size,
                          [at.state.multimap EXCEPT !.shown_rectangle =
                              Some(zoom(op'.arg.input.scroll, Unwrap(@)))])
ScrollEnd ==
    convert_window2bitmap(op'.arg.input.hover, widget'.current_size,
                          states'[FrameSession].multimap)

\* C28: when the hit-test at the cursor returns a coordinate before the scroll and
\* after zoom(delta), then after the translation by (before - after) the hit-test at
\* the same pixel returns the coordinate (and the dataset) it returned before.
C28_ScrollKeepsCursorCoordinate ==
    [][(op'.name = "ui" /\ op'.arg.input.scroll # 0 /\ panic' = "") =>
        \A at \in {AtScroll} : \A before \in {ScrollBefore(at)}, after \in {ScrollAfter(at)} :
           (get_pos(before) # None /\ get_pos(after) # None) =>
              /\ states'[FrameSession].multimap.shown_rectangle =
                    Some(translate(Point(before.x - after.x, before.y - after.y),
                                   zoom(op'.arg.input.scroll,
                                        Unwrap(at.state.multimap.shown_rectangle))))
              /\ ScrollEnd = before]_vars

\* a zoom-out at pixel (3, 1) from the home rectangle: (1, 1) stays under the cursor
\* and the rectangle is moved to (-2, -1)-(2, 3)
C28_Witness ==
    /\ op.name = "ui" /\ op.arg.input.scroll = -1 /\ op.arg.input.hover = Some(Point(3, 1))
    /\ states[1].multimap.shown_rectangle = Some(Rect(-2, -1, 2, 3))
    /\ convert_window2bitmap(Some(Point(3, 1)), widget.current_size, states[1].multimap)
         = Position("Pixel", 1, 1, 1)

\* C29, as stated: an immediate or a delayed export made in a state for which render
\* returns a RenderProblem returns without a panic.
C29_ExportNeverAbortsOnProblem ==
    panic # "copy_to_clipboard"

\* C30, as stated: after center_to(p) the point p lies inside the half-open shown
\* rectangle, left_top <= p < right_bottom on both axes.
C30_CenterToKeepsPointInView ==
    [][op'.name = "center_to" =>
        LET p == op'.arg
            after == Unwrap(shown_rectangle')
        IN /\ after.left_top.x <= p.x /\ p.x < after.right_bottom.x
           /\ after.left_top.y <= p.y /\ p.y < after.right_bottom.y]_vars

====
